---- MODULE Spec2Model ----
(***************************************************************************)
(* State machine of the storefront component App (src/src/app/app.ts).     *)
(*                                                                         *)
(* Conventions                                                             *)
(*  - Text is a TLA+ string; toLowerCase and includes are computed          *)
(*    character by character.                                              *)
(*  - Money is an integer amount of cents (129.99 is 12999); a rating rate *)
(*    is an integer number of tenths (4.5 is 45).                          *)
(*  - JavaScript runs one task to completion: a handler, and the chain of  *)
(*    continuations that follows the settling of a request, is one step.   *)
(*  - null is the empty sequence <<>>, a present value p is <<p>>.         *)
(*  - initRequests is the set of requests issued by ngOnInit's calls that  *)
(*    have not settled yet.                                                *)
(*  - last is the record of the most recent handler: its name, arguments,  *)
(*    the outcome of the request it resumed from and the alert() calls it  *)
(*    made.                                                                *)
(***************************************************************************)
EXTENDS Integers, Sequences, FiniteSets, TLC

VARIABLES products, categories, cart, currentFilter, searchQuery,
          featuredProduct, isLoading, showApiWarning,
          pc, initRequests, pendingProducts, pendingCategories, last, snap

vars == <<products, categories, cart, currentFilter, searchQuery,
          featuredProduct, isLoading, showApiWarning,
          pc, initRequests, pendingProducts, pendingCategories, last, snap>>

(***************************************************************************)
(* Bounds                                                                  *)
(***************************************************************************)
\* largest quantity addToCart is allowed to reach
MaxQty == 2
\* largest number of loadProducts and loadCategories calls, besides the two
\* ngOnInit makes, that are awaiting their response at the same time
MaxPending == 1

(***************************************************************************)
(* Fallback data                                                           *)
(***************************************************************************)
sampleProducts ==
  << [id |-> 1,
      title |-> "Premium Wireless Headphones",
      price |-> 12999,
      description |-> "High-quality wireless headphones with noise cancellation and premium sound quality. Perfect for music lovers and professionals.",
      category |-> "electronics",
      image |-> "https://images.unsplash.com/photo-1505740420928-5e560c06d30e?w=300&h=300&fit=crop",
      rating |-> [rate |-> 45, count |-> 120]] >>

sampleCategories == <<"electronics", "jewelery", "men's clothing", "women's clothing">>

(***************************************************************************)
(* The remote source: the arrays the two endpoints may answer with.        *)
(***************************************************************************)
apiBackpack ==
  [id |-> 1, title |-> "Fjallraven Backpack", price |-> 10995,
   description |-> "Fits 15 inch Laptops", category |-> "men's clothing",
   image |-> "https://fakestoreapi.com/img/81fPKd-2AYL.jpg",
   rating |-> [rate |-> 39, count |-> 120]]

apiRing ==
  [id |-> 2, title |-> "Gold Ring", price |-> 16800,
   description |-> "Solid GOLD petite micropave", category |-> "jewelery",
   image |-> "https://fakestoreapi.com/img/71YAIFU48IL.jpg",
   rating |-> [rate |-> 30, count |-> 400]]

ProductResponses == { <<apiBackpack, apiRing>> }

CategoryResponses == { <<"jewelery", "men's clothing">> }

\* how a request settles: with a body (possibly the empty array) or with an
\* error (transport failure or non-success status)
Outcome(bodies) ==
  [kind : {"ok"}, body : bodies \cup {<<>>}] \cup {[kind |-> "error", body |-> <<>>]}

\* largest catalog the View Filter is applied to in SpecFilter
MaxCatalog == 2

\* the catalogs, queries and category selectors of SpecFilter
Catalogs ==
  UNION { [1..n -> {sampleProducts[1], apiBackpack, apiRing}] : n \in 0..MaxCatalog }

FilterQueries == {"", "GOLD", "gold", "Ring", "WIRELESS", "clothing", "Fits 15", "zz"}

FilterCategories == {"all", "jewelery", "Jewelery", "electronics", "men's clothing"}

\* arguments the handlers are called with
ProductIds == {1, 2}
Quantities == {-5, 0, 1, 2}
Queries == {"", "GOLD"}
Filters == {"all", "jewelery"}

(***************************************************************************)
(* Text                                                                    *)
(***************************************************************************)
Upper == "ABCDEFGHIJKLMNOPQRSTUVWXYZ"
Lower == "abcdefghijklmnopqrstuvwxyz"

\* the lower-case form of one character
lowerChar(c) ==
  IF \E k \in 1..26 : SubSeq(Upper, k, k) = c
    THEN LET k == CHOOSE k \in 1..26 : SubSeq(Upper, k, k) = c
         IN SubSeq(Lower, k, k)
    ELSE c

\* String.prototype.toLowerCase: every character mapped, the two halves of
\* the string one after the other
RECURSIVE toLowerCase(_)
toLowerCase(s) ==
  IF Len(s) = 0 THEN ""
  ELSE IF Len(s) = 1 THEN lowerChar(s)
  ELSE LET h == Len(s) \div 2
       IN toLowerCase(SubSeq(s, 1, h)) \o toLowerCase(SubSeq(s, h + 1, Len(s)))

\* String.prototype.includes
includes(s, q) ==
  \E i \in 1..(Len(s) - Len(q) + 1) : SubSeq(s, i, i + Len(q) - 1) = q

(***************************************************************************)
(* Array look-up                                                           *)
(***************************************************************************)
\* Array.prototype.find with the test "element.id === productId": <<>> when
\* no element matches, else the first match in a one-element sequence
findById(arr, productId) ==
  IF \E i \in 1..Len(arr) : arr[i].id = productId
    THEN << arr[CHOOSE i \in 1..Len(arr) :
                  arr[i].id = productId /\ \A j \in 1..(i - 1) : arr[j].id # productId] >>
    ELSE <<>>

(***************************************************************************)
(* Computed values                                                         *)
(***************************************************************************)
\* filteredProducts without the toLowerCase() of the query
filteredOfRawQuery(prods, filt, query) ==
  LET search == query
      keep(product) ==
        LET matchesCategory == filt = "all" \/ product.category = filt
            matchesSearch ==
              \/ search = ""
              \/ includes(toLowerCase(product.title), search)
              \/ includes(toLowerCase(product.description), search)
              \/ includes(toLowerCase(product.category), search)
        IN matchesCategory /\ matchesSearch
  IN SelectSeq(prods, keep)

filteredOf(prods, filt, query) ==
  LET search == toLowerCase(query)
      keep(product) ==
        LET matchesCategory == filt = "all" \/ product.category = filt
            matchesSearch ==
              \/ search = ""
              \/ includes(toLowerCase(product.title), search)
              \/ includes(toLowerCase(product.description), search)
              \/ includes(toLowerCase(product.category), search)
        IN matchesCategory /\ matchesSearch
  IN SelectSeq(prods, keep)

filteredProducts == filteredOf(products, currentFilter, searchQuery)

\* cart.reduce with (total, item) => total + item.quantity from 0
countOf(c) ==
  LET total[i \in 0..Len(c)] ==
        IF i = 0 THEN 0 ELSE total[i - 1] + c[i].quantity
  IN total[Len(c)]

\* cartTotal without the quantity factor
totalOfPrices(c) ==
  LET total[i \in 0..Len(c)] ==
        IF i = 0 THEN 0 ELSE total[i - 1] + c[i].price
  IN total[Len(c)]

\* cart.reduce with (total, item) => total + (item.price * item.quantity)
\* from 0
totalOf(c) ==
  LET total[i \in 0..Len(c)] ==
        IF i = 0 THEN 0 ELSE total[i - 1] + (c[i].price * c[i].quantity)
  IN total[Len(c)]

cartCount == countOf(cart)

cartTotal == totalOf(cart)

\* Number.prototype.toFixed(2) of an amount of t cents: the units and the
\* two decimals
toFixed2(t) == [units |-> t \div 100, decimals |-> t % 100]

(***************************************************************************)
(* Handler records                                                         *)
(***************************************************************************)
NoOutcome == [kind |-> "none", body |-> <<>>]

Ran(op, id, qty, res, out) ==
  [op |-> op, id |-> id, qty |-> qty, res |-> res, out |-> out]

\* what a load method left when it returned: its name, the outcome of its
\* request and the three signals a load can write
Returned(op, res, prods, cats, warning) ==
  << [op |-> op, res |-> res, products |-> prods, categories |-> cats,
      showApiWarning |-> warning] >>

Init ==
  /\ products = <<>>
  /\ categories = <<>>
  /\ cart = <<>>
  /\ currentFilter = "all"
  /\ searchQuery = ""
  /\ featuredProduct = <<>>
  /\ isLoading = FALSE
  /\ showApiWarning = FALSE
  /\ pc = "created"
  /\ initRequests = {}
  /\ pendingProducts = 0
  /\ pendingCategories = 0
  /\ last = Ran("constructor", 0, 0, NoOutcome, <<>>)
  /\ snap = <<>>

(***************************************************************************)
(* Data Fetcher                                                            *)
(***************************************************************************)
\* the response passes the test "response && response.length > 0"
hasData(res) == res.kind = "ok" /\ Len(res.body) > 0

\* loadProducts up to its await: the flags it sets before the request
loadProductsIssue ==
  /\ isLoading' = TRUE
  /\ showApiWarning' = FALSE

\* loadProducts without the fallback: it stores whatever body there is
productsLoadedNoFallback(res) == res.body

\* products after the request of a loadProducts call settled with res
productsLoaded(res) == IF hasData(res) THEN res.body ELSE sampleProducts

\* showApiWarning after the request settled with res, w being its value
\* when the request settled
warningLoaded(res, w) == IF hasData(res) THEN w ELSE TRUE

\* loadProducts from its await to its return
loadProductsResume(res) ==
  /\ products' = productsLoaded(res)
  /\ showApiWarning' = warningLoaded(res, showApiWarning)
  /\ isLoading' = FALSE

\* loadCategories without the fallback: a failed request keeps the old list
categoriesLoadedKeeps(res) ==
  IF hasData(res) THEN res.body ELSE categories

\* categories after the request of a loadCategories call settled with res
categoriesLoaded(res) == IF hasData(res) THEN res.body ELSE sampleCategories

\* loadFeaturedProduct picking from the fallback data instead of products
featuredPicksFallback(prods, old) == { <<sampleProducts[1]>> }

\* the values loadFeaturedProduct may leave in featuredProduct: any element
\* of the catalog (Math.random picks the index), or the old value when the
\* catalog is empty
featuredPicks(prods, old) ==
  IF Len(prods) > 0 THEN { <<prods[i]>> : i \in 1..Len(prods) } ELSE {old}

\* ngOnInit calling loadProducts() and loadCategories() without awaiting the
\* first: both requests are issued at once
NgOnInitParallel ==
  /\ pc = "created"
  /\ loadProductsIssue
  /\ pc' = "awaitProducts"
  /\ initRequests' = initRequests \cup {"products", "categories"}
  /\ last' = Ran("ngOnInit", 0, 0, NoOutcome, <<>>)
  /\ snap' = <<>>
  /\ UNCHANGED <<products, categories, cart, currentFilter, searchQuery,
                 featuredProduct, pendingProducts, pendingCategories>>

\* ngOnInit up to its first await: loadProducts() is called and issues the
\* products request
NgOnInit ==
  /\ pc = "created"
  /\ loadProductsIssue
  /\ pc' = "awaitProducts"
  /\ initRequests' = initRequests \cup {"products"}
  /\ last' = Ran("ngOnInit", 0, 0, NoOutcome, <<>>)
  /\ snap' = <<>>
  /\ UNCHANGED <<products, categories, cart, currentFilter, searchQuery,
                 featuredProduct, pendingProducts, pendingCategories>>

\* the products request of ngOnInit settles: loadProducts returns, ngOnInit
\* resumes and loadCategories() issues the categories request
ProductsSettled(res) ==
  /\ pc = "awaitProducts"
  /\ "products" \in initRequests
  /\ loadProductsResume(res)
  /\ pc' = "awaitCategories"
  /\ initRequests' = (initRequests \ {"products"}) \cup {"categories"}
  /\ last' = Ran("loadProducts", 0, 0, res, <<>>)
  /\ snap' = Returned("loadProducts", res, products', categories, showApiWarning')
  /\ UNCHANGED <<categories, cart, currentFilter, searchQuery,
                 featuredProduct, pendingProducts, pendingCategories>>

\* the categories request of ngOnInit settles: loadCategories returns,
\* ngOnInit resumes and runs loadFeaturedProduct()
CategoriesSettled(res) ==
  /\ pc = "awaitCategories"
  /\ "categories" \in initRequests
  /\ categories' = categoriesLoaded(res)
  /\ featuredProduct' \in featuredPicks(products, featuredProduct)
  /\ pc' = "done"
  /\ initRequests' = initRequests \ {"categories"}
  /\ last' = Ran("loadCategories", 0, 0, res, <<>>)
  /\ snap' = Returned("loadCategories", res, products, categories', showApiWarning)
  /\ UNCHANGED <<products, cart, currentFilter, searchQuery, isLoading,
                 showApiWarning, pendingProducts, pendingCategories>>

\* loadProducts() called again (it is a public method), up to its await
LoadProducts ==
  /\ pc # "created"
  /\ pendingProducts + pendingCategories < MaxPending
  /\ loadProductsIssue
  /\ pendingProducts' = pendingProducts + 1
  /\ last' = Ran("loadProducts.call", 0, 0, NoOutcome, <<>>)
  /\ snap' = IF snap # <<>> /\ snap[1].op = "loadProducts" THEN snap ELSE <<>>
  /\ UNCHANGED <<products, categories, cart, currentFilter, searchQuery,
                 featuredProduct, pc, initRequests, pendingCategories>>

\* the request of one such call settles and the call returns
LoadProductsSettled(res) ==
  /\ pendingProducts > 0
  /\ loadProductsResume(res)
  /\ pendingProducts' = pendingProducts - 1
  /\ last' = Ran("loadProducts", 0, 0, res, <<>>)
  /\ snap' = Returned("loadProducts", res, products', categories, showApiWarning')
  /\ UNCHANGED <<categories, cart, currentFilter, searchQuery,
                 featuredProduct, pc, initRequests, pendingCategories>>

\* loadCategories() called again, up to its await
LoadCategories ==
  /\ pc # "created"
  /\ pendingProducts + pendingCategories < MaxPending
  /\ pendingCategories' = pendingCategories + 1
  /\ last' = Ran("loadCategories.call", 0, 0, NoOutcome, <<>>)
  /\ snap' = IF snap # <<>> /\ snap[1].op = "loadCategories" THEN snap ELSE <<>>
  /\ UNCHANGED <<products, categories, cart, currentFilter, searchQuery,
                 featuredProduct, isLoading, showApiWarning, pc, initRequests,
                 pendingProducts>>

LoadCategoriesSettled(res) ==
  /\ pendingCategories > 0
  /\ categories' = categoriesLoaded(res)
  /\ pendingCategories' = pendingCategories - 1
  /\ last' = Ran("loadCategories", 0, 0, res, <<>>)
  /\ snap' = Returned("loadCategories", res, products, categories', showApiWarning)
  /\ UNCHANGED <<products, cart, currentFilter, searchQuery,
                 featuredProduct, isLoading, showApiWarning, pc, initRequests,
                 pendingProducts>>

DismissApiWarning ==
  /\ pc # "created"
  /\ showApiWarning' = FALSE
  /\ last' = Ran("dismissApiWarning", 0, 0, NoOutcome, <<>>)
  /\ snap' = <<>>
  /\ UNCHANGED <<products, categories, cart, currentFilter, searchQuery,
                 featuredProduct, isLoading, pc, initRequests, pendingProducts,
                 pendingCategories>>

(***************************************************************************)
(* View Filter inputs                                                      *)
(***************************************************************************)
OnSearchChange(query) ==
  /\ pc # "created"
  /\ searchQuery' = query
  /\ last' = Ran("onSearchChange", 0, 0, NoOutcome, <<>>)
  /\ snap' = <<>>
  /\ UNCHANGED <<products, categories, cart, currentFilter, featuredProduct,
                 isLoading, showApiWarning, pc, initRequests, pendingProducts,
                 pendingCategories>>

OnCategoryFilter(category) ==
  /\ pc # "created"
  /\ currentFilter' = category
  /\ last' = Ran("onCategoryFilter", 0, 0, NoOutcome, <<>>)
  /\ snap' = <<>>
  /\ UNCHANGED <<products, categories, cart, searchQuery, featuredProduct,
                 isLoading, showApiWarning, pc, initRequests, pendingProducts,
                 pendingCategories>>

(***************************************************************************)
(* Cart Store                                                              *)
(***************************************************************************)
\* { ...product, quantity: 1 }
newItem(product) == [quantity |-> 1] @@ product

\* addToCart adding 2 to the quantity of an existing entry
addToCartTwo(prods, c, productId) ==
  LET product == findById(prods, productId)
      existingItem == findById(c, productId)
      bump(item) == IF item.id = productId
                      THEN [item EXCEPT !.quantity = item.quantity + 2]
                      ELSE item
  IN IF product = <<>> THEN c
     ELSE IF existingItem # <<>> THEN [i \in 1..Len(c) |-> bump(c[i])]
     ELSE c \o << newItem(product[1]) >>

\* addToCart without the look-up of an existing entry: it always appends
addToCartAppend(prods, c, productId) ==
  LET product == findById(prods, productId)
  IN IF product = <<>> THEN c ELSE c \o << newItem(product[1]) >>

\* addToCart looking the product up in the fallback data, not in the catalog
addToCartStale(prods, c, productId) ==
  LET product == findById(sampleProducts, productId)
      existingItem == findById(c, productId)
      bump(item) == IF item.id = productId
                      THEN [item EXCEPT !.quantity = item.quantity + 1]
                      ELSE item
  IN IF product = <<>> THEN c
     ELSE IF existingItem # <<>> THEN [i \in 1..Len(c) |-> bump(c[i])]
     ELSE c \o << newItem(product[1]) >>

\* addToCart putting a new entry in front of the cart
addToCartPrepend(prods, c, productId) ==
  LET product == findById(prods, productId)
      existingItem == findById(c, productId)
      bump(item) == IF item.id = productId
                      THEN [item EXCEPT !.quantity = item.quantity + 1]
                      ELSE item
  IN IF product = <<>> THEN c
     ELSE IF existingItem # <<>> THEN [i \in 1..Len(c) |-> bump(c[i])]
     ELSE << newItem(product[1]) >> \o c

\* the cart addToCart(productId) sets, from catalog prods and cart c
addToCart(prods, c, productId) ==
  LET product == findById(prods, productId)
      existingItem == findById(c, productId)
      bump(item) == IF item.id = productId
                      THEN [item EXCEPT !.quantity = item.quantity + 1]
                      ELSE item
  IN IF product = <<>> THEN c
     ELSE IF existingItem # <<>> THEN [i \in 1..Len(c) |-> bump(c[i])]
     ELSE c \o << newItem(product[1]) >>

\* removeFromCart with the test of the filter inverted
removeFromCartKeeps(c, productId) == SelectSeq(c, LAMBDA item : item.id = productId)

\* the cart removeFromCart(productId) sets
removeFromCart(c, productId) == SelectSeq(c, LAMBDA item : item.id # productId)

\* updateCartItemQuantity removing only for quantity < 0
updateCartItemQuantityNegative(c, productId, quantity) ==
  LET setQty(item) == IF item.id = productId
                        THEN [item EXCEPT !.quantity = quantity]
                        ELSE item
  IN IF quantity < 0 THEN removeFromCart(c, productId)
     ELSE [i \in 1..Len(c) |-> setQty(c[i])]

\* updateCartItemQuantity without the branch for quantity <= 0
updateCartItemQuantityStore(c, productId, quantity) ==
  LET setQty(item) == IF item.id = productId
                        THEN [item EXCEPT !.quantity = quantity]
                        ELSE item
  IN [i \in 1..Len(c) |-> setQty(c[i])]

\* the cart updateCartItemQuantity(productId, quantity) sets
updateCartItemQuantity(c, productId, quantity) ==
  LET setQty(item) == IF item.id = productId
                        THEN [item EXCEPT !.quantity = quantity]
                        ELSE item
  IN IF quantity <= 0 THEN removeFromCart(c, productId)
     ELSE [i \in 1..Len(c) |-> setQty(c[i])]

\* the cart clearCart() sets
clearCart == <<>>

\* a cart method that also resets the category filter
CartFrameResetsFilter ==
  /\ currentFilter' = "all"
  /\ UNCHANGED <<products, categories, searchQuery,
                 featuredProduct, isLoading, showApiWarning, pc, initRequests,
                 pendingProducts, pendingCategories>>

\* what the cart methods and checkout leave alone: everything but the cart
CartFrame ==
  UNCHANGED <<products, categories, currentFilter, searchQuery,
              featuredProduct, isLoading, showApiWarning, pc, initRequests,
              pendingProducts, pendingCategories>>

\* the quantity of productId in cart c, 0 when it has no entry
qtyIn(c, productId) ==
  LET e == findById(c, productId)
  IN IF e = <<>> THEN 0 ELSE e[1].quantity

AddToCart(productId) ==
  /\ pc # "created"
  /\ qtyIn(cart, productId) < MaxQty
  /\ cart' = addToCart(products, cart, productId)
  /\ last' = Ran("addToCart", productId, 0, NoOutcome, <<>>)
  /\ snap' = <<>>
  /\ CartFrame

RemoveFromCart(productId) ==
  /\ pc # "created"
  /\ cart' = removeFromCart(cart, productId)
  /\ last' = Ran("removeFromCart", productId, 0, NoOutcome, <<>>)
  /\ snap' = <<>>
  /\ CartFrame

UpdateCartItemQuantity(productId, quantity) ==
  /\ pc # "created"
  /\ cart' = updateCartItemQuantity(cart, productId, quantity)
  /\ last' = Ran("updateCartItemQuantity", productId, quantity, NoOutcome, <<>>)
  /\ snap' = <<>>
  /\ CartFrame

ClearCart ==
  /\ pc # "created"
  /\ cart' = clearCart
  /\ last' = Ran("clearCart", 0, 0, NoOutcome, <<>>)
  /\ snap' = <<>>
  /\ CartFrame

(***************************************************************************)
(* Checkout Simulator                                                      *)
(***************************************************************************)
\* checkout reading the aggregates after clearCart()
checkoutAlertsCleared(c) ==
  IF Len(c) = 0 THEN <<>>
  ELSE << [total |-> toFixed2(totalOf(clearCart)), items |-> countOf(clearCart)] >>

\* checkout without the early return on an empty cart
checkoutAlertsAlways(c) ==
  << [total |-> toFixed2(totalOf(c)), items |-> countOf(c)] >>

\* the alert() calls checkout() makes on cart c
checkoutAlerts(c) ==
  IF Len(c) = 0 THEN <<>>
  ELSE << [total |-> toFixed2(totalOf(c)), items |-> countOf(c)] >>

\* the cart checkout() leaves
checkoutCart(c) == IF Len(c) = 0 THEN c ELSE clearCart

Checkout ==
  /\ pc # "created"
  /\ cart' = checkoutCart(cart)
  /\ last' = Ran("checkout", 0, 0, NoOutcome, checkoutAlerts(cart))
  /\ snap' = <<>>
  /\ CartFrame

(***************************************************************************)
(* The component                                                           *)
(***************************************************************************)
Next ==
  \/ NgOnInit
  \/ \E res \in Outcome(ProductResponses) : ProductsSettled(res)
  \/ \E res \in Outcome(CategoryResponses) : CategoriesSettled(res)
  \/ LoadProducts
  \/ \E res \in Outcome(ProductResponses) : LoadProductsSettled(res)
  \/ LoadCategories
  \/ \E res \in Outcome(CategoryResponses) : LoadCategoriesSettled(res)
  \/ DismissApiWarning
  \/ \E query \in Queries : OnSearchChange(query)
  \/ \E category \in Filters : OnCategoryFilter(category)
  \/ \E productId \in ProductIds : AddToCart(productId)
  \/ \E productId \in ProductIds : RemoveFromCart(productId)
  \/ \E productId \in ProductIds, quantity \in Quantities :
       UpdateCartItemQuantity(productId, quantity)
  \/ ClearCart
  \/ Checkout

Spec == Init /\ [][Next]_vars

\* the component as the application runs it: ngOnInit once, then the
\* handlers of the view; loadProducts and loadCategories are not called again
NextStartup ==
  \/ NgOnInit
  \/ \E res \in Outcome(ProductResponses) : ProductsSettled(res)
  \/ \E res \in Outcome(CategoryResponses) : CategoriesSettled(res)
  \/ DismissApiWarning
  \/ \E query \in Queries : OnSearchChange(query)
  \/ \E category \in Filters : OnCategoryFilter(category)
  \/ \E productId \in ProductIds : AddToCart(productId)
  \/ \E productId \in ProductIds : RemoveFromCart(productId)
  \/ \E productId \in ProductIds, quantity \in Quantities :
       UpdateCartItemQuantity(productId, quantity)
  \/ ClearCart
  \/ Checkout

SpecStartup == Init /\ [][NextStartup]_vars

\* the same, every request ngOnInit issues eventually settling and Angular
\* calling ngOnInit
FairStartup ==
  /\ SpecStartup
  /\ WF_vars(NgOnInit)
  /\ WF_vars(\E res \in Outcome(ProductResponses) : ProductsSettled(res))
  /\ WF_vars(\E res \in Outcome(CategoryResponses) : CategoriesSettled(res))

(***************************************************************************)
(* The View Filter alone: the component after its catalog was loaded (or,  *)
(* for the empty catalog, while the first load is awaited), any catalog    *)
(* of at most MaxCatalog products, under search and filter changes.        *)
(***************************************************************************)
InitFilter ==
  /\ products \in Catalogs
  /\ cart = <<>>
  /\ currentFilter = "all"
  /\ searchQuery = ""
  /\ showApiWarning = FALSE
  /\ pendingProducts = 0
  /\ pendingCategories = 0
  /\ IF products = <<>>
       THEN /\ pc = "awaitProducts"
            /\ initRequests = {"products"}
            /\ isLoading = TRUE
            /\ categories = <<>>
            /\ featuredProduct = <<>>
            /\ last = Ran("ngOnInit", 0, 0, NoOutcome, <<>>)
            /\ snap = <<>>
       ELSE /\ pc = "done"
            /\ initRequests = {}
            /\ isLoading = FALSE
            /\ categories = sampleCategories
            /\ featuredProduct = <<products[1]>>
            /\ last = Ran("dismissApiWarning", 0, 0, NoOutcome, <<>>)
            /\ snap = <<>>

NextFilter ==
  \/ \E query \in FilterQueries : OnSearchChange(query)
  \/ \E category \in FilterCategories : OnCategoryFilter(category)

SpecFilter == InitFilter /\ [][NextFilter]_vars

(***************************************************************************)
(* Properties                                                              *)
(***************************************************************************)
\* the number of entries of cart c with the given id
entriesOf(c, productId) == Cardinality({i \in 1..Len(c) : c[i].id = productId})

\* the sum of the quantities of the entries of c, last entry first
RECURSIVE sumQuantities(_)
sumQuantities(c) ==
  IF Len(c) = 0 THEN 0
  ELSE c[Len(c)].quantity + sumQuantities(SubSeq(c, 1, Len(c) - 1))

\* the sum of price * quantity of the entries of c, last entry first
RECURSIVE sumAmounts(_)
sumAmounts(c) ==
  IF Len(c) = 0 THEN 0
  ELSE c[Len(c)].price * c[Len(c)].quantity + sumAmounts(SubSeq(c, 1, Len(c) - 1))

\* C1: in every reachable state no two cart entries share a product id.
C1_OneEntryPerId ==
  \A i, j \in 1..Len(cart) : cart[i].id = cart[j].id => i = j

\* C1 witness: addToCart ran for an id that already had an entry, in a cart
\* of two entries.
C1_Witness ==
  /\ last.op = "addToCart"
  /\ Len(cart) = 2
  /\ \E i \in 1..Len(cart) : cart[i].id = last.id /\ cart[i].quantity = 2

\* C2: in every reachable state every cart entry has a quantity >= 1, and
\* an updateCartItemQuantity with a quantity <= 0 leaves no entry for its id.
C2_QuantitiesPositive ==
  /\ \A i \in 1..Len(cart) : cart[i].quantity >= 1
  /\ (last.op = "updateCartItemQuantity" /\ last.qty <= 0)
       => entriesOf(cart, last.id) = 0

\* C2 witness: updateCartItemQuantity ran with quantity -5 and the cart still
\* holds another entry.
C2_Witness ==
  /\ last.op = "updateCartItemQuantity"
  /\ last.qty = -5
  /\ Len(cart) = 1
  /\ cart[1].id # last.id

\* C8: in every reachable state cartCount is the sum of the quantities and
\* cartTotal the sum of price * quantity of the cart entries, both 0 for the
\* empty cart; entries (price 10, qty 2), (price 5, qty 1) give 3 and 25.
C8_Aggregates ==
  /\ cartCount = sumQuantities(cart)
  /\ cartTotal = sumAmounts(cart)
  /\ cart = <<>> => cartCount = 0 /\ cartTotal = 0
  /\ countOf(<<[price |-> 10, quantity |-> 2], [price |-> 5, quantity |-> 1]>>) = 3
  /\ totalOf(<<[price |-> 10, quantity |-> 2], [price |-> 5, quantity |-> 1]>>) = 25

\* C8 witness: a cart of two entries, one of them with quantity 2.
C8_Witness ==
  /\ Len(cart) = 2
  /\ cart[1].quantity = 2
  /\ cart[2].quantity = 1
  /\ cartCount = 3

\* C3 as stated: in the state in which a loadProducts call has just returned,
\* products is the fallback dataset and showApiWarning is true when its
\* request failed or answered with an empty array, and products is the
\* answered array and showApiWarning is false when it answered with data.
C3_LoadProductsOutcome ==
  last.op = "loadProducts" =>
    IF last.res.kind = "ok" /\ last.res.body # <<>>
      THEN products = last.res.body /\ showApiWarning = FALSE
      ELSE products = sampleProducts /\ showApiWarning = TRUE

\* C4 as stated: in every reachable state showApiWarning = TRUE implies that
\* products is the fallback dataset.
C4_WarningMeansFallback ==
  showApiWarning = TRUE => products = sampleProducts

\* C5: checkout() on a non-empty cart makes exactly one alert() call, whose
\* item count is the sum of the quantities and whose total, in units and two
\* decimals, is the sum of price * quantity of the cart before the call, and
\* leaves the cart empty.
C5_CheckoutConfirmsThenClears ==
  [][ (last'.op = "checkout" /\ Len(cart) > 0) =>
        /\ Len(last'.out) = 1
        /\ last'.out[1].items = sumQuantities(cart)
        /\ last'.out[1].total.decimals \in 0..99
        /\ 100 * last'.out[1].total.units + last'.out[1].total.decimals
             = sumAmounts(cart)
        /\ cart' = <<>> ]_vars

\* C5 witness: checkout ran on a cart of three items and the cart is empty.
C5_Witness ==
  /\ last.op = "checkout"
  /\ Len(last.out) = 1
  /\ last.out[1].items = 3
  /\ cart = <<>>

\* C6: checkout() on an empty cart makes no alert() call and changes none of
\* cart, products, categories, currentFilter, searchQuery, featuredProduct,
\* isLoading and showApiWarning.
C6_CheckoutEmptyNoOp ==
  [][ (last'.op = "checkout" /\ Len(cart) = 0) =>
        /\ last'.out = <<>>
        /\ UNCHANGED <<cart, products, categories, currentFilter, searchQuery,
                       featuredProduct, isLoading, showApiWarning>> ]_vars

\* C6 witness: checkout ran on an empty cart after startup, with a filter and
\* a query set.
C6_Witness ==
  /\ last.op = "checkout"
  /\ last.out = <<>>
  /\ cart = <<>>
  /\ pc = "done"
  /\ currentFilter # "all"
  /\ searchQuery # ""

\* the quantity cart c holds for an id: the sum over its entries with that id
quantityOf(c, productId) ==
  sumQuantities(SelectSeq(c, LAMBDA item : item.id = productId))

\* C9: addToCart with an id of the catalog leaves exactly one entry for that
\* id and adds exactly 1 to the quantity the cart holds for it (so two calls
\* from no entry give one entry with quantity 2, n calls add n).
C9_AddIncrements ==
  [][ (last'.op = "addToCart"
         /\ \E i \in 1..Len(products) : products[i].id = last'.id) =>
        /\ entriesOf(cart', last'.id) = 1
        /\ quantityOf(cart', last'.id) = quantityOf(cart, last'.id) + 1 ]_vars

\* C9 witness: addToCart ran and its id has the only entry, with quantity 2.
C9_Witness ==
  /\ last.op = "addToCart"
  /\ Len(cart) = 1
  /\ cart[1].id = last.id
  /\ cart[1].quantity = 2

\* cart c with the entries of the given id dropped, all others as they were
RECURSIVE without(_, _)
without(c, productId) ==
  IF Len(c) = 0 THEN <<>>
  ELSE LET front == without(SubSeq(c, 1, Len(c) - 1), productId)
       IN IF c[Len(c)].id = productId THEN front ELSE Append(front, c[Len(c)])

\* C10: updateCartItemQuantity(id, quantity) with quantity <= 0 leaves the
\* cart removeFromCart(id) leaves: the entry of id gone, all others unchanged;
\* with quantity > 0 and id in the cart, the entry of id has exactly that
\* quantity and nothing else in the cart changes.
C10_UpdateQuantity ==
  [][ last'.op = "updateCartItemQuantity" =>
        IF last'.qty <= 0
          THEN /\ cart' = removeFromCart(cart, last'.id)
               /\ cart' = without(cart, last'.id)
          ELSE entriesOf(cart, last'.id) > 0 =>
                 /\ Len(cart') = Len(cart)
                 /\ \A i \in 1..Len(cart) :
                      cart'[i] = IF cart[i].id = last'.id
                                   THEN [cart[i] EXCEPT !.quantity = last'.qty]
                                   ELSE cart[i] ]_vars

\* C10 witness: updateCartItemQuantity ran with quantity 0 and the cart keeps
\* the entry of the other id, with its quantity 2.
C10_Witness ==
  /\ last.op = "updateCartItemQuantity"
  /\ last.qty = 0
  /\ Len(cart) = 1
  /\ cart[1].id # last.id
  /\ cart[1].quantity = 2

\* two characters are the same letter, whatever their case
sameLetter(a, b) ==
  \/ a = b
  \/ \E n \in 1..26 : {a, b} = {SubSeq(Upper, n, n), SubSeq(Lower, n, n)}

\* q occurs in s as a substring, compared case-insensitively
occursIn(q, s) ==
  \E d \in 0..(Len(s) - Len(q)) :
    \A k \in 1..Len(q) : sameLetter(SubSeq(q, k, k), SubSeq(s, d + k, d + k))

\* the inclusion rule of the View Filter
included(p, filt, q) ==
  /\ filt = "all" \/ p.category = filt
  /\ \/ q = ""
     \/ occursIn(q, p.title)
     \/ occursIn(q, p.description)
     \/ occursIn(q, p.category)

\* the included products of catalog c, in catalog order
RECURSIVE includedOf(_, _, _)
includedOf(c, filt, q) ==
  IF Len(c) = 0 THEN <<>>
  ELSE LET front == includedOf(SubSeq(c, 1, Len(c) - 1), filt, q)
       IN IF included(c[Len(c)], filt, q) THEN Append(front, c[Len(c)]) ELSE front

\* C7: for every catalog, category filter and search query, filteredProducts
\* is the subsequence of the catalog, in catalog order, of the products that
\* satisfy the inclusion rule; every element of it is an element of the
\* catalog.
C7_FilteredProducts ==
  /\ filteredProducts = includedOf(products, currentFilter, searchQuery)
  /\ \A i \in 1..Len(filteredProducts) :
       \E j \in 1..Len(products) : products[j] = filteredProducts[i]

\* C7 witness: a catalog of two products, a query in upper case that only
\* matches in another case, a category filter, and one product kept.
C7_Witness ==
  /\ last.op = "onSearchChange"
  /\ searchQuery = "GOLD"
  /\ currentFilter = "jewelery"
  /\ Len(products) = 2
  /\ Len(filteredProducts) = 1
  /\ filteredProducts[1] = products[2]

\* C11: ngOnInit never has its two requests in flight together; its
\* categories request is issued only in the step in which its products
\* request settles and products is set; featuredProduct is picked only in the
\* step in which its categories request settles.
C11_StartupSequential ==
  /\ [](Cardinality(initRequests) <= 1)
  /\ [][ ("categories" \in initRequests' /\ "categories" \notin initRequests) =>
           /\ "products" \in initRequests
           /\ "products" \notin initRequests'
           /\ last'.op = "loadProducts"
           /\ products' # <<>> ]_vars
  /\ [][ featuredProduct' # featuredProduct =>
           /\ "categories" \in initRequests
           /\ initRequests' = {}
           /\ last'.op = "loadCategories"
           /\ categories' # <<>> ]_vars

\* C11 witness: startup is over, both requests have settled, the second with
\* an error, and a product was picked.
C11_Witness ==
  /\ pc = "done"
  /\ initRequests = {}
  /\ last.op = "loadCategories"
  /\ last.res.kind = "error"
  /\ featuredProduct # <<>>

\* a products request is in flight: a loadProducts call has started and its
\* request has not settled
productsInFlight == "products" \in initRequests \/ pendingProducts > 0

\* C12 as stated: isLoading is true exactly while a loadProducts call is
\* between its start and the settling of its products request, is false when
\* a loadProducts call has returned, and is changed by no handler other than
\* loadProducts (ngOnInit calls it).
C12_LoadingOnlyWhileFetching ==
  /\ [](isLoading = productsInFlight)
  /\ [](last.op = "loadProducts" => isLoading = FALSE)
  /\ [][ isLoading' # isLoading =>
           last'.op \in {"ngOnInit", "loadProducts.call", "loadProducts"} ]_vars

\* C13: if every request ngOnInit issues settles, then whatever the outcomes
\* of the two requests, startup completes and from then on products and
\* categories are non-empty and isLoading is false.
C13_StartupEndsUsable ==
  <>[](/\ pc = "done"
       /\ products # <<>>
       /\ categories # <<>>
       /\ isLoading = FALSE)

\* C13 witness: startup completed with both requests failed: the fallback
\* products and categories are in place and the advisory is shown.
C13_Witness ==
  /\ pc = "done"
  /\ last.op = "loadCategories"
  /\ last.res.kind = "error"
  /\ products = sampleProducts
  /\ categories = sampleCategories
  /\ showApiWarning = TRUE

\* the signals a load can write are as the previous call of the same method
\* left them
asFirstCallLeft ==
  /\ products' = snap[1].products
  /\ categories' = snap[1].categories
  /\ showApiWarning' = snap[1].showApiWarning

\* op was called after a call of op had returned, nothing else ran between
\* the two, and the second call now returns with the outcome of the first
returnsAgain(op, call) ==
  /\ last'.op = op
  /\ last.op = call
  /\ snap # <<>>
  /\ snap[1].op = op
  /\ snap[1].res = last'.res

\* C14 as stated: a loadProducts (loadCategories) call that returns leaves
\* products (categories) equal to the answered array or to the fallback data,
\* and a call made right after a call of the same method returned, whose
\* request has the same outcome, leaves products, categories and
\* showApiWarning as the first call left them.
C14_LoadsIdempotent ==
  /\ [][ last'.op = "loadProducts" =>
           products' = IF last'.res.kind = "ok" /\ last'.res.body # <<>>
                         THEN last'.res.body ELSE sampleProducts ]_vars
  /\ [][ last'.op = "loadCategories" =>
           categories' = IF last'.res.kind = "ok" /\ last'.res.body # <<>>
                           THEN last'.res.body ELSE sampleCategories ]_vars
  /\ [][ returnsAgain("loadCategories", "loadCategories.call") => asFirstCallLeft ]_vars
  /\ [][ returnsAgain("loadProducts", "loadProducts.call") => asFirstCallLeft ]_vars

\* C15: a loadCategories call that returns leaves categories equal to the
\* answered array, or to the fallback list when its request failed or
\* answered with an empty array, and no step of loadCategories (its call, its
\* return) changes showApiWarning, products or isLoading.
C15_CategoriesFailureSilent ==
  /\ [][ last'.op = "loadCategories" =>
           /\ categories' = IF last'.res.kind = "ok" /\ last'.res.body # <<>>
                              THEN last'.res.body ELSE sampleCategories
           /\ UNCHANGED <<showApiWarning, products, isLoading>> ]_vars
  /\ [][ last'.op = "loadCategories.call" =>
           UNCHANGED <<showApiWarning, products, isLoading, categories>> ]_vars

\* C15 witness: a categories request has just failed while the products came
\* from the API: the fallback list is in place and no advisory is shown.
C15_Witness ==
  /\ last.op = "loadCategories"
  /\ last.res.kind = "error"
  /\ categories = sampleCategories
  /\ products # sampleProducts
  /\ showApiWarning = FALSE

\* C16: featuredProduct is null until startup is done; it changes only in the
\* step in which ngOnInit's loadCategories returns, which happens once, after
\* both startup loads; in every state of startup followed by search, filter,
\* cart, checkout and dismiss operations it is null or an element of
\* products, and once startup is done it is null only if products is empty.
C16_FeaturedFromCatalog ==
  /\ [](pc # "done" => featuredProduct = <<>>)
  /\ [](featuredProduct # <<>> =>
          \E i \in 1..Len(products) : products[i] = featuredProduct[1])
  /\ [](pc = "done" /\ featuredProduct = <<>> => products = <<>>)
  /\ [][ featuredProduct' # featuredProduct =>
           /\ pc = "awaitCategories"
           /\ initRequests = {"categories"}
           /\ last.op # "ngOnInit"
           /\ last'.op = "loadCategories"
           /\ pc' = "done" ]_vars
  /\ [][ pc = "done" => pc' = "done" ]_vars

\* C16 witness: startup picked the second of two API products, and a
\* checkout ran afterwards.
C16_Witness ==
  /\ pc = "done"
  /\ products = <<apiBackpack, apiRing>>
  /\ featuredProduct = <<apiRing>>
  /\ last.op = "checkout"
  /\ Len(last.out) = 1

\* the handlers that are not part of the Data Fetcher's loads
uiOps ==
  {"onSearchChange", "onCategoryFilter", "addToCart", "removeFromCart",
   "updateCartItemQuantity", "clearCart", "checkout", "dismissApiWarning"}

cartOps == {"addToCart", "removeFromCart", "updateCartItemQuantity", "clearCart"}

\* C17: onSearchChange, onCategoryFilter, addToCart, removeFromCart,
\* updateCartItemQuantity, clearCart, checkout and dismissApiWarning leave
\* products and categories unchanged; the step in which loadFeaturedProduct
\* runs leaves products unchanged and categories as loadCategories set it;
\* the four cart operations also leave currentFilter, searchQuery,
\* featuredProduct, isLoading and showApiWarning unchanged.
C17_OnlyFetcherMutatesCatalog ==
  /\ [][ last'.op \in uiOps => UNCHANGED <<products, categories>> ]_vars
  /\ [][ featuredProduct' # featuredProduct =>
           /\ products' = products
           /\ categories' = IF last'.res.kind = "ok" /\ last'.res.body # <<>>
                              THEN last'.res.body ELSE sampleCategories ]_vars
  /\ [][ last'.op \in cartOps =>
           UNCHANGED <<currentFilter, searchQuery, featuredProduct,
                       isLoading, showApiWarning>> ]_vars

\* C17 witness: a cart operation has just changed the cart while a filter, a
\* query, a featured product and the advisory flag were set.
C17_Witness ==
  /\ last.op = "updateCartItemQuantity"
  /\ Len(cart) = 1
  /\ cart[1].quantity = 2
  /\ currentFilter = "jewelery"
  /\ searchQuery = "GOLD"
  /\ featuredProduct # <<>>
  /\ showApiWarning = TRUE

\* the ids of the entries of cart c, in cart order
idsOf(c) == [i \in 1..Len(c) |-> c[i].id]

\* every entry of c whose id is not productId is at the same position in d
othersKept(c, d, productId) ==
  \A i \in 1..Len(c) : c[i].id # productId => (i <= Len(d) /\ d[i] = c[i])

inCatalog(prods, productId) ==
  \E i \in 1..Len(prods) : prods[i].id = productId

\* C19: addToCart with an id that is not in products leaves the cart as it
\* was; while products is empty the cart is empty; and addToCart makes the
\* cart longer only by an entry whose id is in products at that moment and
\* whose price is the price of that product.
C19_AddOnlyFromCatalog ==
  /\ [][ (last'.op = "addToCart" /\ ~inCatalog(products, last'.id)) =>
           cart' = cart ]_vars
  /\ [](products = <<>> => cart = <<>>)
  /\ [][ (last'.op = "addToCart" /\ Len(cart') > Len(cart)) =>
           \E i \in 1..Len(products) :
             /\ products[i].id = last'.id
             /\ cart'[Len(cart')].id = products[i].id
             /\ cart'[Len(cart')].price = products[i].price ]_vars

\* C19 witness: addToCart has just been called with an id that the catalog,
\* which is not empty, does not have; the cart holds what it held.
C19_Witness ==
  /\ last.op = "addToCart"
  /\ products # <<>>
  /\ ~inCatalog(products, last.id)
  /\ Len(cart) = 1
  /\ cart[1].id # last.id

\* C19 witness of the empty catalog: addToCart has just been called before
\* the first products load settled.
C19_WitnessEmptyCatalog ==
  /\ last.op = "addToCart"
  /\ products = <<>>
  /\ cart = <<>>

\* cart d has an entry whose id has no entry in cart c
hasNewId(c, d) ==
  \E i \in 1..Len(d) : entriesOf(c, d[i].id) = 0

\* C20: removeFromCart and updateCartItemQuantity (with any quantity) called
\* with an id that has no entry leave the cart as it was, and a step after
\* which the cart holds an id it did not hold before is an addToCart.
C20_OnlyAddCreatesEntries ==
  /\ [][ (/\ last'.op \in {"removeFromCart", "updateCartItemQuantity"}
          /\ entriesOf(cart, last'.id) = 0) => cart' = cart ]_vars
  /\ [][ (last'.op # "addToCart" /\ cart' # cart) => ~hasNewId(cart, cart') ]_vars

\* C20 witness: updateCartItemQuantity has just been called with a positive
\* quantity for an id that has no entry, on a cart that holds another one.
C20_Witness ==
  /\ last.op = "updateCartItemQuantity"
  /\ last.qty = 2
  /\ entriesOf(cart, last.id) = 0
  /\ Len(cart) = 1
  /\ cart[1].quantity = 1

====
